---- MODULE Spec2Model ----
(***************************************************************************)
(* HdxOitResolveTask (pxr/imaging/hdx/oitResolveTask.cpp): the task that   *)
(* allocates and resizes the order-independent-transparency buffers in     *)
(* Prepare and issues the resolve draw in Execute.                          *)
(*                                                                         *)
(* The task context (HdTaskContext, a map from token to VtValue) is the    *)
(* record ctx whose DOMAIN is the set of keys present.  Buffer array       *)
(* ranges live in the heap bars: a bar is the index of its entry, 0 is the *)
(* null pointer, and bars[id] is the number of elements the range was last *)
(* resized to.  int is 32 bits wide; unsigned int values are pairs         *)
(* <<hi, lo>> of 16-bit halves.                                            *)
(***************************************************************************)
EXTENDS Integers, Sequences, FiniteSets, TLC

VARIABLES
    ctx,                \* HdTaskContext shared by the tasks of the frame
    renderDelegate,     \* type of renderIndex->GetRenderDelegate()
    _screenSize,        \* GfVec2i member, <<width, height>>
    _counterBar,        \* the five HdBufferArrayRangeSharedPtr members
    _indexBar,
    _dataBar,
    _depthBar,
    _uniformBar,
    _renderPass,        \* TRUE when the shared pointer is non-null
    _renderPassState,   \* <<>> when null, else <<state record>>
    _renderPassShader,  \* <<>> when null, else <<shader record>>
    bars,               \* heap of buffer array ranges: id -> numElements
    uniformSources,     \* <<>> or <<v>>: value of the last source added to _uniformBar
    pc,                 \* which of Prepare / Execute the engine calls next
    last,               \* what the last step did (diagnostics, draw, resize)
    calls               \* history: sizes passed to _PrepareOitBuffers, events

members == <<_screenSize, _counterBar, _indexBar, _dataBar, _depthBar,
             _uniformBar, _renderPass, _renderPassState, _renderPassShader>>

vars == <<ctx, renderDelegate, _screenSize, _counterBar, _indexBar, _dataBar,
          _depthBar, _uniformBar, _renderPass, _renderPassState,
          _renderPassShader, bars, uniformSources, pc, last, calls>>

----------------------------------------------------------------------------
(* Bounds of the model *)

\* render buffer widths and heights 0..MaxDim are explored exhaustively
MaxDim == 2

\* number of _PrepareOitBuffers calls recorded in calls by SpecFresh
MaxCalls == 2

\* largest number of AOV bindings in the vectors of SpecAov
MaxAovs == 2

----------------------------------------------------------------------------
(* 32-bit arithmetic *)

MaxInt32 == 2147483647

MinInt32 == -MaxInt32 - 1

Half == 65536

\* unsigned int n, for 0 <= n <= MaxInt32
U(n) == <<n \div Half, n % Half>>

\* unsigned int -> int conversion of GfVec2i(w, h): the value modulo 2^32
UnsignedToInt(u) ==
    IF u[1] >= Half \div 2 THEN (u[1] - Half) * Half + u[2]
                           ELSE u[1] * Half + u[2]

\* a + b on int, wrapped to 32 bits
WrapAdd(a, b) ==
    IF a >= 0 /\ b >= 0 /\ a > MaxInt32 - b THEN (a + MinInt32) + (b + MinInt32)
    ELSE IF a < 0 /\ b < 0 /\ a < MinInt32 - b THEN (a - MinInt32) + (b - MinInt32)
    ELSE a + b

\* -a on int, wrapped to 32 bits
WrapNeg(a) == IF a = MinInt32 THEN MinInt32 ELSE -a

\* a * b on int, wrapped to 32 bits (shift and add)
RECURSIVE WrapMul(_, _)
WrapMul(a, b) ==
    IF b = 0 THEN 0
    ELSE IF b = MinInt32 THEN (IF a % 2 = 0 THEN 0 ELSE MinInt32)
    ELSE IF b < 0 THEN WrapNeg(WrapMul(a, -b))
    ELSE LET half == WrapMul(a, b \div 2)
             dbl  == WrapAdd(half, half)
         IN  IF b % 2 = 1 THEN WrapAdd(dbl, a) ELSE dbl

\* a * b does not fit in int, for a, b >= 0
MulOverflows(a, b) == a > 0 /\ b > MaxInt32 \div a

----------------------------------------------------------------------------
(* Task context *)

EmptyContext == [k \in {} |-> TRUE]

Has(c, k) == k \in DOMAIN c

Erase(c, k) == [x \in DOMAIN c \ {k} |-> c[x]]

Put(c, k, v) == [x \in DOMAIN c \cup {k} |-> IF x = k THEN v ELSE c[x]]

BarKeys == {"oitCounterBufferBar", "oitIndexBufferBar", "oitDataBufferBar",
            "oitDepthBufferBar", "oitUniformBar"}

----------------------------------------------------------------------------
(* Constants of the task *)

numSamples == 8

oitScreenSizeFallback == 2048

AovVectorType == "HdRenderPassAovBindingVector"

\* the render pass state built on the first Prepare
NewRenderPassState ==
    [enableDepthTest |-> FALSE,
     enableDepthMask |-> FALSE,
     colorMasks      |-> <<"ColorMaskRGBA">>,
     blendEnabled    |-> TRUE,
     blend           |-> [colorOp  |-> "HdBlendOpAdd",
                          colorSrc |-> "HdBlendFactorOne",
                          colorDst |-> "HdBlendFactorOneMinusSrcAlpha",
                          alphaOp  |-> "HdBlendOpAdd",
                          alphaSrc |-> "HdBlendFactorOne",
                          alphaDst |-> "HdBlendFactorOneMinusSrcAlpha"],
     renderPassShader |-> "oitResolveImageShader",
     aovBindings     |-> <<>>]

\* the shader built on the first Prepare: no buffer bound yet
NewRenderPassShader == [bufferBindings |-> {}]

----------------------------------------------------------------------------
(* What a step reports: the diagnostics it emitted and the GPU work it did *)

NoStep(op) ==
    [op |-> op, outcome |-> "none", request |-> FALSE, warned |-> FALSE,
     created |-> FALSE, resized |-> FALSE, drew |-> FALSE,
     size |-> <<>>, prev |-> "none", repeat |-> FALSE]

----------------------------------------------------------------------------
(* _PrepareOitBuffers *)

\* mutant: only the width is checked
ValidScreenSizeWidthOnly(screenSize) == screenSize[1] >= 0

\* the guard of the TF_CODING_ERROR
ValidScreenSize(screenSize) == screenSize[1] >= 0 /\ screenSize[2] >= 0

\* mutant: the buffers are allocated anew on every call
createOitBuffersAlways(counterBar) == TRUE

createOitBuffers(counterBar) == counterBar = 0

\* a fresh range holds no elements until it is resized
AllocateBufferArrayRange(heap) == Append(heap, 0)

\* mutant: an unchanged size resizes as well
resizeOitBuffersOrEqual(screenSize, tracked) ==
    screenSize[1] >= tracked[1] \/ screenSize[2] >= tracked[2]

resizeOitBuffers(screenSize, tracked) ==
    screenSize[1] > tracked[1] \/ screenSize[2] > tracked[2]

\* the value assigned to _screenSize on a resize
ResizedScreenSize(screenSize, tracked) == screenSize

newBufferSize(screenSize) == WrapMul(screenSize[1], screenSize[2])

CounterLength(screenSize) == WrapAdd(newBufferSize(screenSize), 1)

ListLength(screenSize) == WrapMul(newBufferSize(screenSize), numSamples)

\* some int expression of the resize overflows (undefined behaviour)
ResizeOverflows(screenSize) ==
    \/ MulOverflows(screenSize[1], screenSize[2])
    \/ newBufferSize(screenSize) = MaxInt32
    \/ MulOverflows(newBufferSize(screenSize), numSamples)

\* mutant: the references are published only by the call that allocates
PublishBarsWhenCreated(c, counterBar, indexBar, dataBar, depthBar, uniformBar) ==
    IF counterBar = _counterBar THEN c
    ELSE Put(Put(Put(Put(Put(c,
        "oitCounterBufferBar", counterBar),
        "oitIndexBufferBar", indexBar),
        "oitDataBufferBar", dataBar),
        "oitDepthBufferBar", depthBar),
        "oitUniformBar", uniformBar)

\* mutant: the references are never published
PublishBarsNever(c, counterBar, indexBar, dataBar, depthBar, uniformBar) == c

\* the task context with the five members published
PublishBars(c, counterBar, indexBar, dataBar, depthBar, uniformBar) ==
    Put(Put(Put(Put(Put(c,
        "oitCounterBufferBar", counterBar),
        "oitIndexBufferBar", indexBar),
        "oitDataBufferBar", dataBar),
        "oitDepthBufferBar", depthBar),
        "oitUniformBar", uniformBar)

\* the state _PrepareOitBuffers(ctx, renderIndex, screenSize) leaves, from
\* the current members, the heap and the task context c
PrepareOitBuffers(c, screenSize) ==
    IF ~ValidScreenSize(screenSize)
    THEN [ctx |-> c, screenSize |-> _screenSize,
          counterBar |-> _counterBar, indexBar |-> _indexBar,
          dataBar |-> _dataBar, depthBar |-> _depthBar,
          uniformBar |-> _uniformBar, bars |-> bars,
          uniformSources |-> uniformSources,
          error |-> TRUE, created |-> FALSE, resized |-> FALSE]
    ELSE
    LET create == createOitBuffers(_counterBar)
        n      == Len(bars)
        heap1  == IF create
                  THEN AllocateBufferArrayRange(AllocateBufferArrayRange(
                       AllocateBufferArrayRange(AllocateBufferArrayRange(
                       AllocateBufferArrayRange(bars)))))
                  ELSE bars
        cb     == IF create THEN n + 1 ELSE _counterBar
        ib     == IF create THEN n + 2 ELSE _indexBar
        db     == IF create THEN n + 3 ELSE _dataBar
        zb     == IF create THEN n + 4 ELSE _depthBar
        ub     == IF create THEN n + 5 ELSE _uniformBar
        resize == resizeOitBuffers(screenSize, _screenSize)
        heap2  == IF resize
                  THEN [heap1 EXCEPT ![cb] = CounterLength(screenSize),
                                     ![ib] = ListLength(screenSize),
                                     ![db] = ListLength(screenSize),
                                     ![zb] = ListLength(screenSize)]
                  ELSE heap1
    IN  [ctx |-> PublishBars(c, cb, ib, db, zb, ub),
         screenSize |-> IF resize THEN ResizedScreenSize(screenSize, _screenSize)
                                  ELSE _screenSize,
         counterBar |-> cb, indexBar |-> ib, dataBar |-> db, depthBar |-> zb,
         uniformBar |-> ub, bars |-> heap2,
         uniformSources |-> IF resize THEN <<screenSize>> ELSE uniformSources,
         error |-> FALSE, created |-> create, resized |-> resize]

----------------------------------------------------------------------------
(* _PrepareAovBindings *)

\* mutant: the clear values are handed on
PrepareAovBindingsKeepsClear(c) ==
    IF Has(c, "aovBindings") /\ c.aovBindings.type = AovVectorType
    THEN c.aovBindings.val ELSE <<>>

\* the bindings handed to _renderPassState->SetAovBindings
PrepareAovBindings(c) ==
    LET aovBindings ==
            IF Has(c, "aovBindings") /\ c.aovBindings.type = AovVectorType
            THEN c.aovBindings.val ELSE <<>>
    IN  [i \in 1..Len(aovBindings) |->
            [aovBindings[i] EXCEPT !.clearValue = <<>>]]

----------------------------------------------------------------------------
(* Prepare *)

\* the screen size Prepare computes from the bindings of the render pass state
ComputeScreenSize(aovBindings) ==
    IF aovBindings # <<>>
    THEN <<UnsignedToInt(aovBindings[1].renderBuffer[1]),
           UnsignedToInt(aovBindings[1].renderBuffer[2])>>
    ELSE <<oitScreenSizeFallback, oitScreenSizeFallback>>

\* the guard of the TF_WARN
WarnInvalidAovs(aovBindings, tracked) ==
    aovBindings = <<>> /\ tracked[1] # oitScreenSizeFallback

\* what the build does with the int arithmetic of a resize: wrap when it
\* overflows, or trap in a build that instruments signed overflow
OverflowOutcomes(r, screenSize) ==
    IF r.resized /\ ResizeOverflows(screenSize) THEN {"wrap", "trap"}
                                                ELSE {"wrap"}

\* mutant: Prepare goes on without a request
RequestedOitAlways(c) == TRUE

\* the guard of the early return: a render task requested the OIT buffers
RequestedOit(c) == Has(c, "oitRequestFlag")

\* mutant: Prepare leaves the cleared flag in the context
PrepareContextKeepsCleared(c) == c

\* the task context after the erase that follows the early return
PrepareContext(c) == Erase(c, "oitClearedFlag")

\* mutant: any render delegate passes the TF_VERIFY
IsHdStAlways(delegate) == TRUE

\* dynamic_cast<HdStRenderDelegate*>(renderDelegate) is not null
IsHdSt(delegate) == delegate = "HdSt"

Record(size) ==
    IF calls.on /\ Len(calls.sizes) < MaxCalls
    THEN [calls EXCEPT !.sizes = Append(@, size)] ELSE calls

\* the history with the event noted, when the history is kept
Remember(history, event, happened) ==
    IF history.hist /\ happened THEN [history EXCEPT ![event] = TRUE]
                                ELSE history

Prepare ==
    /\ pc = "prepare"
    /\ UNCHANGED renderDelegate
    /\ IF ~RequestedOit(ctx)
       THEN /\ pc' = "execute"
            /\ last' = [NoStep("Prepare") EXCEPT !.outcome = "NoRequest"]
            /\ UNCHANGED <<ctx, members, bars, uniformSources, calls>>
       ELSE
       LET c1 == PrepareContext(ctx) IN
       IF ~_renderPass /\ ~IsHdSt(renderDelegate)
       THEN /\ pc' = "execute"
            /\ ctx' = c1
            /\ last' = [NoStep("Prepare") EXCEPT !.outcome = "NotHdSt",
                                                 !.request = TRUE]
            /\ UNCHANGED <<members, bars, uniformSources, calls>>
       ELSE
       LET state1 == IF ~_renderPass THEN NewRenderPassState
                                     ELSE _renderPassState[1]
           shader1 == IF ~_renderPass THEN <<NewRenderPassShader>>
                                      ELSE _renderPassShader
           state2 == [state1 EXCEPT !.aovBindings = PrepareAovBindings(c1)]
           screenSize == ComputeScreenSize(state2.aovBindings)
           warn == WarnInvalidAovs(state2.aovBindings, _screenSize)
           \* the previous call of _PrepareOitBuffers was passed the same size
           repeat == /\ _renderPass
                     /\ ComputeScreenSize(_renderPassState[1].aovBindings)
                            = screenSize
           r == PrepareOitBuffers(c1, screenSize)
       IN  \E outcome \in OverflowOutcomes(r, screenSize) :
           IF outcome = "trap"
           THEN /\ pc' = "aborted"
                /\ last' = [NoStep("Abort") EXCEPT !.request = TRUE,
                                                   !.size = <<screenSize>>]
                /\ UNCHANGED <<ctx, members, bars, uniformSources, calls>>
           ELSE /\ pc' = "execute"
                /\ ctx' = r.ctx
                /\ _renderPass' = TRUE
                /\ _renderPassState' = <<state2>>
                /\ _renderPassShader' = shader1
                /\ _screenSize' = r.screenSize
                /\ _counterBar' = r.counterBar
                /\ _indexBar' = r.indexBar
                /\ _dataBar' = r.dataBar
                /\ _depthBar' = r.depthBar
                /\ _uniformBar' = r.uniformBar
                /\ bars' = r.bars
                /\ uniformSources' = r.uniformSources
                /\ calls' = Remember(Record(screenSize), "fellBack",
                                     state2.aovBindings = <<>>)
                /\ last' = [NoStep("Prepare") EXCEPT
                              !.outcome = IF r.error THEN "InvalidScreenSize"
                                                     ELSE "Prepared",
                              !.request = TRUE,
                              !.warned = warn,
                              !.created = r.created,
                              !.resized = r.resized,
                              !.size = <<screenSize>>,
                              !.repeat = repeat]

----------------------------------------------------------------------------
(* Execute *)

\* HdxOitBufferAccessor::AddOitBufferBindings succeeds when the context holds
\* a non-null reference for each of the four list buffers
AddOitBufferBindings(c) ==
    \A k \in BarKeys \ {"oitUniformBar"} : Has(c, k) /\ c[k] # 0

\* mutant: Execute consumes the request flag only
ExecuteContextKeepsCleared(c) == Erase(c, "oitRequestFlag")

\* mutant: Execute erases the cleared flag before it looks for the request
ExecuteContextAlwaysErases(c) ==
    Erase(Erase(c, "oitRequestFlag"), "oitClearedFlag")

\* mutant: Execute leaves the request flag for the next frame
ExecuteContextKeepsRequest(c) ==
    IF ~Has(c, "oitRequestFlag") THEN c ELSE Erase(c, "oitClearedFlag")

\* the task context Execute leaves: the request flag is consumed, and with
\* it the cleared flag
ExecuteContext(c) ==
    IF ~Has(c, "oitRequestFlag") THEN c
    ELSE Erase(Erase(c, "oitRequestFlag"), "oitClearedFlag")

\* the bindings a successful AddOitBufferBindings leaves on the shader
BoundBuffers(c) == {<<k, c[k]>> : k \in BarKeys \ {"oitUniformBar"}}

Execute ==
    /\ pc = "execute"
    /\ pc' = "prepare"
    /\ UNCHANGED <<renderDelegate, _screenSize, _counterBar, _indexBar,
                   _dataBar, _depthBar, _uniformBar, _renderPass,
                   _renderPassState, bars, uniformSources>>
    /\ calls' = Remember(calls, "skipped",
                         /\ Has(ctx, "oitRequestFlag")
                         /\ \/ _renderPassState = <<>>
                            \/ _renderPassShader = <<>>
                            \/ ~AddOitBufferBindings(ExecuteContext(ctx)))
    /\ LET prev == IF last.op = "Prepare" THEN last.outcome ELSE "none"
           done(outcome, request) ==
               [NoStep("Execute") EXCEPT !.outcome = outcome,
                                         !.request = request,
                                         !.drew = (outcome = "Drawn"),
                                         !.prev = prev]
       IN
       LET c1 == ExecuteContext(ctx) IN
       /\ ctx' = c1
       /\ IF ~Has(ctx, "oitRequestFlag")
          THEN /\ last' = done("NoRequest", FALSE)
               /\ UNCHANGED _renderPassShader
          ELSE IF _renderPassState = <<>>
          THEN /\ last' = done("NoRenderPassState", TRUE)
               /\ UNCHANGED _renderPassShader
          ELSE IF _renderPassShader = <<>>
          THEN /\ last' = done("NoRenderPassShader", TRUE)
               /\ UNCHANGED _renderPassShader
          ELSE IF ~AddOitBufferBindings(c1)
          THEN /\ last' = done("NoOitBuffers", TRUE)
               /\ UNCHANGED _renderPassShader
          ELSE /\ last' = done("Drawn", TRUE)
               /\ _renderPassShader' =
                      <<[_renderPassShader[1] EXCEPT
                            !.bufferBindings = BoundBuffers(c1)]>>

----------------------------------------------------------------------------
(* The other tasks and the application, which share the task context *)

\* the widths and heights render buffers report (unsigned int): the small
\* ones, one whose square times numSamples does not fit in int, one whose
\* square does not fit, and one that converts to a negative int
BigDim == Half \div 4

RenderBufferSizes ==
    {<<U(w), U(h)>> : w \in 0..MaxDim, h \in 0..MaxDim}
    \cup {<<U(BigDim), U(BigDim)>>, <<U(Half), U(Half)>>,
          <<<<Half - 1, Half - 1>>, U(1)>>, <<U(1), <<Half \div 2, 0>>>>}

AovBinding(size) == [renderBuffer |-> size, clearValue |-> <<"clear">>]

\* the values a task may store under the aovBindings key
AovValues ==
    {[type |-> "other", val |-> <<>>], [type |-> AovVectorType, val |-> <<>>]}
    \cup {[type |-> AovVectorType, val |-> <<AovBinding(size)>>] :
             size \in RenderBufferSizes}

SmallAovValues ==
    {v \in AovValues :
        \A i \in 1..Len(v.val) :
            /\ UnsignedToInt(v.val[i].renderBuffer[1]) \in 0..MaxDim
            /\ UnsignedToInt(v.val[i].renderBuffer[2]) \in 0..MaxDim}

\* a step of another task leaves the resolve task alone
OtherTask ==
    /\ last' = NoStep("Env")
    /\ UNCHANGED <<renderDelegate, members, bars, uniformSources, pc, calls>>

\* an OIT render task asks for the buffers
RequestOitBuffers ==
    /\ pc # "aborted"
    /\ ctx' = Put(ctx, "oitRequestFlag", TRUE)
    /\ OtherTask

\* an OIT render task has cleared the buffers
SetClearedFlag ==
    /\ pc # "aborted"
    /\ ctx' = Put(ctx, "oitClearedFlag", TRUE)
    /\ OtherTask

\* the render setup task pushes its AOV bindings
SetAovBindings ==
    /\ pc # "aborted"
    /\ \E v \in AovValues : ctx' = Put(ctx, "aovBindings", v)
    /\ OtherTask

\* the same, with render buffers of at most MaxDim by MaxDim
SetSmallAovBindings ==
    /\ pc # "aborted"
    /\ \E v \in SmallAovValues : ctx' = Put(ctx, "aovBindings", v)
    /\ OtherTask

\* render buffers narrower than, as wide as and wider than the fallback,
\* and one whose width converts to a negative int
HistSizes ==
    {<<U(1), U(1)>>, <<U(oitScreenSizeFallback), U(1)>>,
     <<U(2 * oitScreenSizeFallback), U(1)>>, <<<<Half - 1, Half - 1>>, U(1)>>}

HistAovValues ==
    {[type |-> "other", val |-> <<>>], [type |-> AovVectorType, val |-> <<>>]}
    \cup {[type |-> AovVectorType, val |-> <<AovBinding(size)>>] :
             size \in HistSizes}

SetHistAovBindings ==
    /\ pc # "aborted"
    /\ \E v \in HistAovValues : ctx' = Put(ctx, "aovBindings", v)
    /\ OtherTask

\* bindings that differ in the render buffer and in the clear value
AovAlphabet ==
    {[renderBuffer |-> <<U(1), U(1)>>, clearValue |-> <<"clear">>],
     [renderBuffer |-> <<U(2), U(1)>>, clearValue |-> <<"clear">>],
     [renderBuffer |-> <<U(1), U(1)>>, clearValue |-> <<>>]}

\* the vectors of at most MaxAovs bindings
AovVectors ==
    UNION {[1..n -> AovAlphabet] : n \in 0..MaxAovs}

AovVectorValues ==
    {[type |-> "other", val |-> <<>>]}
    \cup {[type |-> AovVectorType, val |-> v] : v \in AovVectors}

\* the render setup task pushes a vector of several AOV bindings
SetAovVector ==
    /\ pc # "aborted"
    /\ \E v \in AovVectorValues : ctx' = Put(ctx, "aovBindings", v)
    /\ OtherTask

\* the application clears the task context between two engine executions
ClearTaskContext ==
    /\ pc # "aborted"
    /\ ctx' = EmptyContext
    /\ OtherTask

----------------------------------------------------------------------------
(* Specifications *)

InitTask ==
    /\ ctx = EmptyContext
    /\ renderDelegate \in {"HdSt", "other"}
    /\ _screenSize = <<0, 0>>
    /\ _counterBar = 0
    /\ _indexBar = 0
    /\ _dataBar = 0
    /\ _depthBar = 0
    /\ _uniformBar = 0
    /\ _renderPass = FALSE
    /\ _renderPassState = <<>>
    /\ _renderPassShader = <<>>
    /\ bars = <<>>
    /\ uniformSources = <<>>
    /\ pc = "prepare"
    /\ last = NoStep("Init")

\* no history of the calls is kept
NoCalls ==
    [on |-> FALSE, sizes |-> <<>>, hist |-> FALSE,
     fellBack |-> FALSE, skipped |-> FALSE]

Init == InitTask /\ calls = NoCalls

Next ==
    \/ Prepare
    \/ Execute
    \/ RequestOitBuffers
    \/ SetClearedFlag
    \/ SetAovBindings
    \/ ClearTaskContext

Spec == Init /\ [][Next]_vars

\* the behaviours in which no render buffer is larger than MaxDim by MaxDim
NextSmall ==
    \/ Prepare
    \/ Execute
    \/ RequestOitBuffers
    \/ SetClearedFlag
    \/ SetSmallAovBindings
    \/ ClearTaskContext

SpecSmall == Init /\ [][NextSmall]_vars

\* the first MaxCalls calls of _PrepareOitBuffers on a fresh task
InitFresh == InitTask /\ calls = [NoCalls EXCEPT !.on = TRUE]

Recording == Len(calls.sizes) < MaxCalls

NextFresh ==
    \/ Recording /\ Prepare
    \/ Recording /\ Execute
    \/ Recording /\ RequestOitBuffers
    \/ Recording /\ SetClearedFlag
    \/ Recording /\ SetAovBindings
    \/ Recording /\ ClearTaskContext

SpecFresh == InitFresh /\ [][NextFresh]_vars

\* the behaviours with the history of fallbacks and skipped draws, over
\* render buffers narrower than, as wide as and wider than the fallback
InitHist == InitTask /\ calls = [NoCalls EXCEPT !.hist = TRUE]

NextHist ==
    \/ Prepare
    \/ Execute
    \/ RequestOitBuffers
    \/ SetClearedFlag
    \/ SetHistAovBindings
    \/ ClearTaskContext

SpecHist == InitHist /\ [][NextHist]_vars

\* the behaviours with vectors of several AOV bindings
NextAov ==
    \/ Prepare
    \/ Execute
    \/ RequestOitBuffers
    \/ SetClearedFlag
    \/ SetAovVector
    \/ ClearTaskContext

SpecAov == Init /\ [][NextAov]_vars

TypeOK ==
    /\ pc \in {"prepare", "execute", "aborted"}
    /\ _renderPass \in BOOLEAN
    /\ Len(bars) \in {0, 5}

----------------------------------------------------------------------------
(* Vocabulary of the properties *)

\* a step that is a completed call of Prepare, of Execute
PrepareStep == pc = "prepare" /\ pc' = "execute"

ExecuteStep == pc = "execute" /\ pc' = "prepare"

BuffersExist == _counterBar # 0

\* the screen size the last Prepare passed to _PrepareOitBuffers
PassedSize == last.size[1]

\* the last step was a Prepare that called _PrepareOitBuffers
CalledPrepareOitBuffers == last.op = "Prepare" /\ last.size # <<>>

NonNegative(size) == size[1] >= 0 /\ size[2] >= 0

LeqSize(a, b) == a[1] <= b[1] /\ a[2] <= b[2]

MaxSize(a, b) ==
    <<IF a[1] >= b[1] THEN a[1] ELSE b[1], IF a[2] >= b[2] THEN a[2] ELSE b[2]>>

\* counter and list are the lengths w*h+1 and w*h*numSamples of the
\* integers; a length is an int, so it is neither when they do not fit
ExactLengths(size, counter, list) ==
    /\ ~MulOverflows(size[1], size[2])
    /\ size[1] * size[2] < MaxInt32
    /\ ~MulOverflows(size[1] * size[2], numSamples)
    /\ counter = size[1] * size[2] + 1
    /\ list = size[1] * size[2] * numSamples

\* the four list buffers have the lengths computed from size
LengthsFrom(size) ==
    /\ BuffersExist
    /\ ExactLengths(size, bars[_counterBar], bars[_indexBar])
    /\ bars[_dataBar] = bars[_indexBar]
    /\ bars[_depthBar] = bars[_indexBar]

\* the context holds the same buffer references before and after the step
SameBarKeys ==
    \A k \in BarKeys :
        /\ Has(ctx', k) <=> Has(ctx, k)
        /\ Has(ctx, k) => ctx'[k] = ctx[k]

----------------------------------------------------------------------------
(* C1 .. C10 *)

\* C1: from one call of _PrepareOitBuffers to the next, the length of each of
\* the counter, index, data and depth buffers never decreases.
C1_BuffersNeverShrink ==
    [][BuffersExist =>
          /\ bars'[_counterBar'] >= bars[_counterBar]
          /\ bars'[_indexBar'] >= bars[_indexBar]
          /\ bars'[_dataBar'] >= bars[_dataBar]
          /\ bars'[_depthBar'] >= bars[_depthBar]]_vars

\* C2: on a fresh task, for valid sizes S1 <= S2 (component-wise), the calls
\* S1 then S2 and the calls S2 then S1 both leave the lengths computed from
\* S2: counter S2.w*S2.h+1, index, data and depth S2.w*S2.h*numSamples.
C2_LargestOfTwoSizesLengths ==
    (Len(calls.sizes) = 2 /\ NonNegative(calls.sizes[1])
                          /\ NonNegative(calls.sizes[2]))
    => /\ LeqSize(calls.sizes[1], calls.sizes[2]) => LengthsFrom(calls.sizes[2])
       /\ LeqSize(calls.sizes[2], calls.sizes[1]) => LengthsFrom(calls.sizes[1])

\* C3: whenever the OIT buffers exist, the counter buffer has W*H+1 elements
\* and the index, data and depth buffers W*H*numSamples each, for (W,H) the
\* tracked _screenSize.
C3_LengthsMatchTrackedSize == BuffersExist => LengthsFrom(_screenSize)

\* C4: a call of _PrepareOitBuffers that resizes sets the tracked size to the
\* component-wise maximum of the previous tracked size and the requested one.
C4_ResizeTracksMaximum ==
    [][(PrepareStep /\ last'.resized)
          => _screenSize' = MaxSize(_screenSize, last'.size[1])]_vars

\* C5 as stated: after any Execute call, whatever its outcome, the cleared
\* flag and the request flag are both absent from the task context.
C5_FlagsAbsentAfterAnyExecute ==
    last.op = "Execute"
    => ~Has(ctx, "oitRequestFlag") /\ ~Has(ctx, "oitClearedFlag")

\* C5 as amended: after any Execute call the request flag is absent; the
\* cleared flag is absent when the request flag was present on entry, and is
\* left as it was when the request flag was absent on entry.
C5_FlagsAfterExecute ==
    [][ExecuteStep =>
          /\ ~Has(ctx', "oitRequestFlag")
          /\ IF Has(ctx, "oitRequestFlag")
             THEN ~Has(ctx', "oitClearedFlag")
             ELSE Has(ctx', "oitClearedFlag") <=> Has(ctx, "oitClearedFlag")]_vars

\* an Execute that found the request flag and skipped the draw
C5_Witness ==
    /\ last.op = "Execute" /\ last.request /\ ~last.drew
    /\ ~Has(ctx, "oitRequestFlag") /\ ~Has(ctx, "oitClearedFlag")

\* C6: an Execute that finds no request flag issues no draw and changes
\* neither the buffers, the tracked size, the lifecycle state nor the context.
C6_ExecuteWithoutRequestIsNoOp ==
    [][(ExecuteStep /\ ~Has(ctx, "oitRequestFlag"))
          => /\ ~last'.drew
             /\ UNCHANGED <<ctx, members, bars, uniformSources>>]_vars

\* an Execute without request on a task that holds buffers, with the cleared
\* flag set
C6_Witness ==
    /\ last.op = "Execute" /\ last.outcome = "NoRequest"
    /\ BuffersExist /\ Has(ctx, "oitClearedFlag")

\* C7: a Prepare that finds no request flag has no effect: nothing is
\* allocated, resized or published, the task is not initialized, the tracked
\* size and the context (the cleared flag included) are unchanged.
C7_PrepareWithoutRequestIsNoOp ==
    [][(PrepareStep /\ ~Has(ctx, "oitRequestFlag"))
          => UNCHANGED <<ctx, members, bars, uniformSources>>]_vars

\* a Prepare without request on a task never initialized, with the cleared
\* flag set
C7_Witness ==
    /\ last.op = "Prepare" /\ last.outcome = "NoRequest"
    /\ ~_renderPass /\ ~BuffersExist /\ Has(ctx, "oitClearedFlag")

\* C8: when Prepare finds the request flag, the backend is supported and the
\* screen size is valid, the Execute that follows it issues the resolve draw.
C8_RequestedFrameDraws ==
    (last.op = "Execute" /\ last.prev = "Prepared") => last.drew

\* a requested frame on a sized task has drawn
C8_Witness ==
    /\ last.op = "Execute" /\ last.prev = "Prepared" /\ last.drew
    /\ _screenSize # <<0, 0>>

\* C9: a _PrepareOitBuffers call with a negative width or height creates and
\* resizes no buffer, leaves the tracked size and the uniform value alone and
\* writes no buffer reference into the context.
C9_InvalidSizeIsNoOp ==
    [][(PrepareStep /\ last'.size # <<>>
                    /\ ~NonNegative(last'.size[1]))
          => /\ UNCHANGED <<bars, uniformSources, _screenSize, _counterBar,
                            _indexBar, _dataBar, _depthBar, _uniformBar>>
             /\ SameBarKeys]_vars

\* an invalid size on a task that never allocated: nothing allocated, nothing
\* published
C9_Witness ==
    /\ CalledPrepareOitBuffers /\ ~NonNegative(PassedSize)
    /\ ~BuffersExist /\ bars = <<>> /\ DOMAIN ctx \cap BarKeys = {}

\* C10: after every _PrepareOitBuffers call with a valid size the context
\* holds the five buffer references, they are the task's five buffers, and
\* the task's buffers, once created, are never replaced.
C10_BuffersPublishedAndKept ==
    [][/\ BuffersExist =>
             UNCHANGED <<_counterBar, _indexBar, _dataBar, _depthBar,
                         _uniformBar>>
       /\ (PrepareStep /\ last'.size # <<>> /\ NonNegative(last'.size[1]))
             => /\ BarKeys \subseteq DOMAIN ctx'
                /\ ctx'.oitCounterBufferBar = _counterBar'
                /\ ctx'.oitIndexBufferBar = _indexBar'
                /\ ctx'.oitDataBufferBar = _dataBar'
                /\ ctx'.oitDepthBufferBar = _depthBar'
                /\ ctx'.oitUniformBar = _uniformBar'
                /\ Cardinality({_counterBar', _indexBar', _dataBar',
                                _depthBar', _uniformBar'} \ {0}) = 5
                /\ Len(bars') = 5]_vars

\* a Prepare that published buffers created in an earlier frame
C10_Witness ==
    /\ CalledPrepareOitBuffers /\ NonNegative(PassedSize)
    /\ ~last.created /\ BarKeys \subseteq DOMAIN ctx

----------------------------------------------------------------------------
(* C11 .. C20 *)

\* C11: a _PrepareOitBuffers call with the same valid size as the call before
\* it resizes no buffer and does not rewrite the uniform value.
C11_RepeatedSizeIsIdle ==
    [][(PrepareStep /\ last'.repeat /\ NonNegative(last'.size[1]))
          => /\ ~last'.resized
             /\ UNCHANGED <<bars, uniformSources, _screenSize>>]_vars

\* a second call in a row with the size the buffers were resized for
C11_Witness ==
    /\ CalledPrepareOitBuffers /\ last.repeat /\ NonNegative(PassedSize)
    /\ ~last.resized /\ ~last.created /\ PassedSize = _screenSize
    /\ uniformSources = <<PassedSize>>

\* the task holds no render pass, no render pass state, no shader and no
\* buffer, and the context no buffer reference
Uninitialized ==
    /\ ~_renderPass /\ _renderPassState = <<>> /\ _renderPassShader = <<>>
    /\ ~BuffersExist /\ bars = <<>> /\ uniformSources = <<>>
    /\ DOMAIN ctx \cap BarKeys = {}

\* C12 as stated: with an unsupported backend the task stays uninitialized,
\* never draws, and every Prepare and every Execute is a no-op.
C12_UnsupportedBackendAllNoOps ==
    [][renderDelegate # "HdSt" =>
          /\ Uninitialized' /\ ~last'.drew
          /\ (PrepareStep \/ ExecuteStep)
                => UNCHANGED <<ctx, members, bars, uniformSources>>]_vars

\* C12 as amended: with an unsupported backend the task stays uninitialized
\* and never draws; Prepare and Execute touch nothing but the flags of the
\* context: with the request flag present Prepare erases the cleared flag and
\* Execute erases the request and the cleared flag, without it both are no-ops.
C12_UnsupportedBackendStaysUninitialized ==
    [][renderDelegate # "HdSt" =>
          /\ Uninitialized' /\ ~last'.drew
          /\ (PrepareStep \/ ExecuteStep)
                => /\ UNCHANGED <<members, bars, uniformSources>>
                   /\ (~Has(ctx, "oitRequestFlag") => ctx' = ctx)
          /\ (PrepareStep /\ Has(ctx, "oitRequestFlag"))
                => ctx' = Erase(ctx, "oitClearedFlag")
          /\ (ExecuteStep /\ Has(ctx, "oitRequestFlag"))
                => ctx' = Erase(Erase(ctx, "oitRequestFlag"), "oitClearedFlag")]_vars

\* a requested frame on an unsupported backend: the verification failed in
\* Prepare and in Execute
C12_Witness ==
    /\ renderDelegate # "HdSt" /\ Uninitialized
    /\ last.op = "Execute" /\ last.prev = "NotHdSt"
    /\ last.outcome = "NoRenderPassState"

\* C16: a Prepare that finds the request flag leaves the context without the
\* cleared flag, also when the backend is unsupported or the screen size is
\* invalid, and with the request flag still present.
C16_PrepareErasesClearedOnly ==
    [][(PrepareStep /\ Has(ctx, "oitRequestFlag"))
          => /\ ~Has(ctx', "oitClearedFlag")
             /\ Has(ctx', "oitRequestFlag")
             /\ last'.outcome \in {"NotHdSt", "InvalidScreenSize", "Prepared"}]_vars

\* a requested Prepare that stopped at the unsupported backend
C16_Witness ==
    /\ last.op = "Prepare" /\ last.outcome = "NotHdSt"
    /\ Has(ctx, "oitRequestFlag") /\ ~Has(ctx, "oitClearedFlag")

\* counter is the length w*h+1 of the integers for the size
ExactCounter(size, counter) ==
    /\ ~MulOverflows(size[1], size[2])
    /\ size[1] * size[2] < MaxInt32
    /\ counter = size[1] * size[2] + 1

\* C17: _PrepareOitBuffers rewrites the uniform screen size exactly when it
\* resizes the buffers; once it has resized, the uniform value is the tracked
\* _screenSize and the counter buffer has uniform.w*uniform.h+1 elements.
C17_UniformFollowsResize ==
    [][(PrepareStep /\ last'.size # <<>>)
          => /\ last'.resized => uniformSources' = last'.size
             /\ ~last'.resized => UNCHANGED uniformSources
             /\ uniformSources' # <<>>
                   => /\ uniformSources'[1] = _screenSize'
                      /\ ExactCounter(uniformSources'[1],
                                      bars'[_counterBar'])]_vars

\* counter and list are at least the lengths w*h+1 and w*h*numSamples of the
\* integers; an int length is below them when they do not fit in an int
EnoughLengths(size, counter, list) ==
    /\ ~MulOverflows(size[1], size[2])
    /\ size[1] * size[2] < MaxInt32
    /\ ~MulOverflows(size[1] * size[2], numSamples)
    /\ counter >= size[1] * size[2] + 1
    /\ list >= size[1] * size[2] * numSamples

\* C19: after a _PrepareOitBuffers call with a non-negative size S the
\* tracked size is at least S in both components, the counter buffer has at
\* least S.w*S.h+1 elements and the index, data and depth buffers at least
\* S.w*S.h*numSamples each.
C19_BuffersCoverRequestedSize ==
    [][(PrepareStep /\ last'.size # <<>> /\ NonNegative(last'.size[1]))
          => /\ LeqSize(last'.size[1], _screenSize')
             /\ EnoughLengths(last'.size[1], bars'[_counterBar'],
                              bars'[_indexBar'])
             /\ EnoughLengths(last'.size[1], bars'[_counterBar'],
                              bars'[_dataBar'])
             /\ EnoughLengths(last'.size[1], bars'[_counterBar'],
                              bars'[_depthBar'])]_vars

\* C20: for a size taken from the unsigned width and height of an AOV render
\* buffer that passes the non-negativity check, the lengths passed to Resize
\* are non-negative and are the integers w*h+1 and w*h*numSamples.
C20_ResizeLengthsDoNotWrap ==
    [][(PrepareStep /\ last'.resized
           /\ _renderPassState'[1].aovBindings # <<>>)
          => /\ bars'[_counterBar'] >= 0
             /\ bars'[_indexBar'] >= 0
             /\ last'.size[1] =
                   <<UnsignedToInt(_renderPassState'[1].aovBindings[1].renderBuffer[1]),
                     UnsignedToInt(_renderPassState'[1].aovBindings[1].renderBuffer[2])>>
             /\ ExactLengths(last'.size[1], bars'[_counterBar'],
                             bars'[_indexBar'])
             /\ bars'[_dataBar'] = bars'[_indexBar']
             /\ bars'[_depthBar'] = bars'[_indexBar']]_vars

\* C13 as stated: a requested Prepare without AOV bindings passes the size
\* (2048, 2048) and warns exactly when no earlier Prepare fell back, whatever
\* the earlier frames were.
C13_FallbackWarnsOnce ==
    [][(PrepareStep /\ last'.size # <<>>
           /\ _renderPassState'[1].aovBindings = <<>>)
          => /\ last'.size[1] = <<oitScreenSizeFallback, oitScreenSizeFallback>>
             /\ last'.warned <=> ~calls.fellBack]_vars

\* the stage holds a render pass state and a shader
Ready == _renderPassState # <<>> /\ _renderPassShader # <<>>

\* the context holds the counter, index, data and depth buffer references
ListBarsPresent(c) == \A k \in BarKeys \ {"oitUniformBar"} : Has(c, k)

\* C14 as stated: Execute draws only with the request flag, a Ready stage and
\* the four references on entry; when the stage is not Ready or a reference
\* is absent it does not draw and leaves neither flag in the context.
C14_NoDrawErasesFlagsAlways ==
    [][ExecuteStep =>
          /\ last'.drew => /\ Has(ctx, "oitRequestFlag")
                           /\ Ready /\ ListBarsPresent(ctx)
          /\ (~Ready \/ ~ListBarsPresent(ctx))
                => /\ ~last'.drew
                   /\ ~Has(ctx', "oitRequestFlag")
                   /\ ~Has(ctx', "oitClearedFlag")]_vars

\* C14 as amended: Execute draws only with the request flag, a Ready stage
\* and the four references on entry; when the request flag is present and
\* the stage is not Ready or a reference is absent it does not draw and
\* leaves neither flag in the context; without the request flag it does not
\* draw and leaves the context as it is.
C14_NoDrawErasesFlagsOfRequest ==
    [][ExecuteStep =>
          /\ last'.drew => /\ Has(ctx, "oitRequestFlag")
                           /\ Ready /\ ListBarsPresent(ctx)
          /\ (Has(ctx, "oitRequestFlag") /\ (~Ready \/ ~ListBarsPresent(ctx)))
                => /\ ~last'.drew
                   /\ ~Has(ctx', "oitRequestFlag")
                   /\ ~Has(ctx', "oitClearedFlag")
          /\ ~Has(ctx, "oitRequestFlag") => (~last'.drew /\ ctx' = ctx)]_vars

\* a requested Execute of a Ready stage found no buffer reference
C14_Witness ==
    /\ last.op = "Execute" /\ last.outcome = "NoOitBuffers" /\ last.request
    /\ Ready /\ ~ListBarsPresent(ctx) /\ ~last.drew
    /\ ~Has(ctx, "oitRequestFlag") /\ ~Has(ctx, "oitClearedFlag")

\* C15 as stated: once an Execute has skipped its draw for a missing
\* reference or render pass state, a later frame with the request flag, the
\* supported backend and Prepare right before Execute draws.
C15_DrawsAfterSkippedDraw ==
    [][(ExecuteStep /\ calls.skipped /\ renderDelegate = "HdSt"
           /\ last.op = "Prepare" /\ last.request)
          => last'.drew]_vars

\* C15 as amended: ... and a Prepare that computed a non-negative screen
\* size right before Execute draws.
C15_DrawsAfterSkippedDrawValidSize ==
    [][(ExecuteStep /\ calls.skipped /\ renderDelegate = "HdSt"
           /\ last.op = "Prepare" /\ last.request
           /\ last.size # <<>> /\ NonNegative(last.size[1]))
          => last'.drew]_vars

\* a frame that drew after an earlier Execute had skipped its draw
C15_Witness ==
    /\ calls.skipped /\ renderDelegate = "HdSt"
    /\ last.op = "Execute" /\ last.prev = "Prepared" /\ last.drew

\* the binding vector the context holds, none when the entry is missing or
\* holds another type
SharedAovBindings(c) ==
    IF ~Has(c, "aovBindings") THEN <<>>
    ELSE IF c.aovBindings.type # AovVectorType THEN <<>>
    ELSE c.aovBindings.val

\* C18: after a Prepare that reaches the AOV step the bindings of the render
\* pass state are as many as the context's, each with the render buffer of
\* the context's binding at the same place and an empty clear value; the
\* context's aovBindings entry is as before, its clear values included; a
\* missing or wrongly typed entry leaves the render pass state no binding.
C18_LocalAovBindingsStripped ==
    [][(PrepareStep /\ last'.size # <<>>)
          => LET local  == _renderPassState'[1].aovBindings
                 shared == SharedAovBindings(ctx)
             IN  /\ Len(local) = Len(shared)
                 /\ \A i \in 1..Len(local) :
                       /\ local[i].clearValue = <<>>
                       /\ local[i].renderBuffer = shared[i].renderBuffer
                 /\ Has(ctx', "aovBindings") <=> Has(ctx, "aovBindings")
                 /\ Has(ctx, "aovBindings")
                       => ctx'.aovBindings = ctx.aovBindings]_vars

\* Prepare took two bindings with different render buffers from a context
\* entry that still holds a clear value
C18_Witness ==
    /\ CalledPrepareOitBuffers
    /\ Len(_renderPassState[1].aovBindings) = 2
    /\ _renderPassState[1].aovBindings[1].renderBuffer
          # _renderPassState[1].aovBindings[2].renderBuffer
    /\ \A i \in 1..2 : _renderPassState[1].aovBindings[i].clearValue = <<>>
    /\ Has(ctx, "aovBindings")
    /\ Len(ctx.aovBindings.val) = 2
    /\ ctx.aovBindings.val[1].clearValue = <<"clear">>
    /\ \A i \in 1..2 : ctx.aovBindings.val[i].renderBuffer
                          = _renderPassState[1].aovBindings[i].renderBuffer

====
